---- MODULE Spec2Model ----
(***************************************************************************)
(* A model of the email validator package.  The package holds several      *)
(* validator variants that share the type name EmailValidator:             *)
(*   "opt"  - New(options...), configured with functional options         *)
(*   "disp" - NewEmailValidator(), disposable registry and MX lookup       *)
(*   "res"  - New()/NewStrict(), returns a ValidationResult with parts     *)
(*   "err"  - New().WithStrictMode(), returns a single error               *)
(* Strings are sequences of one-character strings; a Go error is a         *)
(* sequence holding no message (nil) or one message.                       *)
(*                                                                         *)
(* Spec         - one caller validating addresses and changing a validator *)
(*                or applying a rule of validation_rules.go                *)
(* DnsSpec      - the DNS lookups of dns_checker.go while in flight        *)
(* ConcSpec     - goroutines calling Validate on one validator             *)
(* ClassifySpec - the classifier CommonPatterns                            *)
(* HelperSpec   - the helpers that take an address apart                   *)
(***************************************************************************)
EXTENDS Integers, Sequences, FiniteSets, TLC

VARIABLES v, call

vars == <<v, call>>

----------------------------------------------------------------------------
(* Characters *)

LowerSeq == <<"a","b","c","d","e","f","g","h","i","j","k","l","m",
              "n","o","p","q","r","s","t","u","v","w","x","y","z">>

UpperSeq == <<"A","B","C","D","E","F","G","H","I","J","K","L","M",
              "N","O","P","Q","R","S","T","U","V","W","X","Y","Z">>

DigitSeq == <<"0","1","2","3","4","5","6","7","8","9">>

LowerLetters == {LowerSeq[i] : i \in 1..26}

UpperLetters == {UpperSeq[i] : i \in 1..26}

Digits == {DigitSeq[i] : i \in 1..10}

AlphaNum == LowerLetters \cup UpperLetters \cup Digits

WhiteSpace == {" ", "\t", "\n", "\r"}

\* the backtick character (the lexer does not accept it inside a string)
Backtick == "backtick"

\* the character class of the local-part in the format pattern
RegexLocalChars ==
    AlphaNum \cup {".", "!", "#", "$", "%", "&", "'", "*", "+", "/", "=", "?",
                   "^", "_", Backtick, "{", "|", "}", "~", "-"}

ToLowerChar(c) ==
    IF c \in UpperLetters
    THEN LowerSeq[CHOOSE i \in 1..26 : UpperSeq[i] = c]
    ELSE c

DigitValue(c) == (CHOOSE i \in 1..10 : DigitSeq[i] = c) - 1

----------------------------------------------------------------------------
(* The string functions of the standard library, as the code uses them *)

ToLower(s) == [i \in 1..Len(s) |-> ToLowerChar(s[i])]

TrimSpaceOnce(s) ==
    LET a == IF Len(s) > 0 /\ s[1] \in WhiteSpace THEN 2 ELSE 1
        b == IF Len(s) >= a /\ s[Len(s)] \in WhiteSpace THEN Len(s) - 1 ELSE Len(s)
    IN  SubSeq(s, a, b)

TrimSpace(s) ==
    LET keep == {i \in 1..Len(s) : s[i] \notin WhiteSpace}
    IN  IF keep = {} THEN <<>>
        ELSE LET a == CHOOSE i \in keep : \A j \in keep : i <= j
                 b == CHOOSE i \in keep : \A j \in keep : i >= j
             IN  SubSeq(s, a, b)

HasPrefix(s, p) == Len(s) >= Len(p) /\ SubSeq(s, 1, Len(p)) = p

HasSuffix(s, p) == Len(s) >= Len(p) /\ SubSeq(s, Len(s) - Len(p) + 1, Len(s)) = p

Contains(s, p) ==
    \E i \in 1..(Len(s) - Len(p) + 1) : SubSeq(s, i, i + Len(p) - 1) = p

\* strings.Split(s, sep) for a one-character separator: one part more than
\* there are separators, empty parts kept
RECURSIVE SplitFrom(_, _, _, _)
SplitFrom(s, sep, i, cur) ==
    LET hits == {j \in i..Len(s) : s[j] = sep}
    IN  IF hits = {} THEN <<cur \o SubSeq(s, i, Len(s))>>
        ELSE LET j == CHOOSE x \in hits : \A y \in hits : x <= y
             IN  <<cur \o SubSeq(s, i, j - 1)>> \o SplitFrom(s, sep, j + 1, <<>>)

Split(s, sep) == SplitFrom(s, sep, 1, <<>>)

EqualFold(a, b) == ToLower(a) = ToLower(b)

----------------------------------------------------------------------------
(* Length limits *)

MaxEmailLen == 254

MaxLocalLen == 64

MaxDomainLen == 253

MaxLabelLen == 63

----------------------------------------------------------------------------
(* The format pattern shared by the variants:                              *)
(*   ^[local chars]+@label(\.label)*$                                      *)
(*   label = [a-zA-Z0-9](?:[a-zA-Z0-9-]{0,61}[a-zA-Z0-9])?                 *)

\* one character, then up to 61 and one more
PatternLabelMax == 63

RegexLabel(l) ==
    /\ Len(l) >= 1
    /\ Len(l) <= PatternLabelMax
    /\ l[1] \in AlphaNum
    /\ l[Len(l)] \in AlphaNum
    /\ \A i \in 1..Len(l) : l[i] \in AlphaNum \cup {"-"}

MatchEmailPattern(s) ==
    LET parts == Split(s, "@")
    IN  /\ Len(parts) = 2
        /\ Len(parts[1]) >= 1
        /\ \A i \in 1..Len(parts[1]) : parts[1][i] \in RegexLocalChars
        /\ LET labels == Split(parts[2], ".")
           IN  \A k \in 1..Len(labels) : RegexLabel(labels[k])

----------------------------------------------------------------------------
(* The result of a Validate call.  ran and lookups record which rules      *)
(* after the format check were executed and how many DNS lookups were      *)
(* made during the call, lookupErrors how many of them failed.             *)

EmptyResult ==
    [isValid |-> FALSE, errors |-> <<>>, warnings |-> <<>>, normalized |-> <<>>,
     domain |-> <<>>, username |-> <<>>, isDisposable |-> FALSE,
     hasMXRecord |-> FALSE, ran |-> {}, lookups |-> 0, lookupErrors |-> 0]

Nil == <<>>

Err(msg) == <<msg>>


----------------------------------------------------------------------------
(* The validator object.  Fields a variant does not have keep their zero   *)
(* value.                                                                  *)

ZeroValidator ==
    [kind |-> "opt", allowIPAddresses |-> FALSE, allowTLDs |-> <<>>,
     blockedDomains |-> {}, disposableDomains |-> {}, strictMode |-> FALSE]

----------------------------------------------------------------------------
(* Variant "opt": New(options...) *)

WithAllowedTLDs(ev, tlds) == [ev EXCEPT !.allowTLDs = tlds]

\* WithBlockedDomains that stores the entries in the letter case given
WithBlockedDomains_asGiven(ev, domains) ==
    [ev EXCEPT !.blockedDomains = {domains[i] : i \in 1..Len(domains)}]

WithBlockedDomains(ev, domains) ==
    [ev EXCEPT !.blockedDomains = {ToLower(domains[i]) : i \in 1..Len(domains)}]

WithIPAddresses(ev, allow) == [ev EXCEPT !.allowIPAddresses = allow]

ApplyOption(ev, o) ==
    CASE o.name = "WithAllowedTLDs" -> WithAllowedTLDs(ev, o.arg)
      [] o.name = "WithBlockedDomains" -> WithBlockedDomains(ev, o.arg)
      [] o.name = "WithIPAddresses" -> WithIPAddresses(ev, o.arg)

RECURSIVE ApplyOptions(_, _)
ApplyOptions(ev, options) ==
    IF options = <<>> THEN ev
    ELSE ApplyOptions(ApplyOption(ev, Head(options)), Tail(options))

Opt_New(options) ==
    ApplyOptions([ZeroValidator EXCEPT !.kind = "opt", !.allowIPAddresses = FALSE,
                                       !.blockedDomains = {}], options)

Opt_isValidFormat(email) ==
    IF Len(email) > MaxEmailLen THEN FALSE ELSE MatchEmailPattern(email)

splitEmail(email) ==
    LET parts == Split(email, "@")
    IN  IF Len(parts) # 2 THEN <<<<>>, <<>>>> ELSE <<parts[1], parts[2]>>

\* Opt_validateLocalPart that takes any dot for a doubled one
Opt_validateLocalPart_anyDot(localPart) ==
    IF localPart = <<>> THEN Err("local part cannot be empty")
    ELSE IF Len(localPart) > MaxLocalLen
    THEN Err("local part exceeds maximum length (64 characters)")
    ELSE IF Contains(localPart, <<".">>)
    THEN Err("local part cannot contain consecutive dots")
    ELSE IF HasPrefix(localPart, <<".">>) \/ HasSuffix(localPart, <<".">>)
    THEN Err("local part cannot start or end with a dot")
    ELSE Nil

Opt_validateLocalPart(localPart) ==
    IF localPart = <<>> THEN Err("local part cannot be empty")
    ELSE IF Len(localPart) > MaxLocalLen
    THEN Err("local part exceeds maximum length (64 characters)")
    ELSE IF Contains(localPart, <<".", ".">>)
    THEN Err("local part cannot contain consecutive dots")
    ELSE IF HasPrefix(localPart, <<".">>) \/ HasSuffix(localPart, <<".">>)
    THEN Err("local part cannot start or end with a dot")
    ELSE Nil

\* net.ParseIP: a dotted quad of decimal fields 0..255 without leading zeros
IsIPv4Field(f) ==
    /\ Len(f) >= 1
    /\ Len(f) <= 3
    /\ \A i \in 1..Len(f) : f[i] \in Digits
    /\ (Len(f) > 1 => f[1] # "0")
    /\ LET val == IF Len(f) = 1 THEN DigitValue(f[1])
                  ELSE IF Len(f) = 2 THEN 10 * DigitValue(f[1]) + DigitValue(f[2])
                  ELSE 100 * DigitValue(f[1]) + 10 * DigitValue(f[2]) + DigitValue(f[3])
       IN  val <= 255

ParseIPv4(ip) ==
    LET fields == Split(ip, ".")
    IN  Len(fields) = 4 /\ \A k \in 1..4 : IsIPv4Field(fields[k])

HexDigits == Digits \cup {"a","b","c","d","e","f","A","B","C","D","E","F"}

IsHexGroup(g) == Len(g) >= 1 /\ Len(g) <= 4 /\ \A i \in 1..Len(g) : g[i] \in HexDigits

\* the groups of one side of an IPv6 literal; the last may be a dotted quad,
\* which stands for two groups.  -1 when a group is malformed
IPv6Groups(side, lastMayBeV4) ==
    IF side = <<>> THEN 0
    ELSE LET gs == Split(side, ":")
             n == Len(gs)
             v4 == lastMayBeV4 /\ ParseIPv4(gs[n])
         IN  IF /\ \A k \in 1..(n - 1) : IsHexGroup(gs[k])
                /\ (v4 \/ IsHexGroup(gs[n]))
             THEN (IF v4 THEN n + 1 ELSE n)
             ELSE -1

ParseIPv6(ip) ==
    LET gaps == {i \in 1..(Len(ip) - 1) : ip[i] = ":" /\ ip[i + 1] = ":"}
    IN  IF gaps = {}
        THEN IPv6Groups(ip, TRUE) = 8
        ELSE /\ Cardinality(gaps) = 1
             /\ LET g == CHOOSE i \in gaps : TRUE
                    left == IPv6Groups(SubSeq(ip, 1, g - 1), FALSE)
                    right == IPv6Groups(SubSeq(ip, g + 2, Len(ip)), TRUE)
                IN  left >= 0 /\ right >= 0 /\ left + right <= 7

ParseIP(ip) == ParseIPv4(ip) \/ ParseIPv6(ip)

validateIPDomain(ip) ==
    IF ~ParseIP(ip) THEN Err("invalid IP address in domain") ELSE Nil

BuiltinTLDs ==
    {<<"c","o","m">>,
     <<"o","r","g">>,
     <<"n","e","t">>,
     <<"e","d","u">>,
     <<"g","o","v">>,
     <<"i","o">>,
     <<"c","o">>,
     <<"i","n","f","o">>,
     <<"b","i","z">>,
     <<"m","e">>}

\* isValidTLD that compares the label as written
isValidTLD_caseSensitive(ev, tld) ==
    IF Len(ev.allowTLDs) > 0
    THEN \E i \in 1..Len(ev.allowTLDs) : tld = ev.allowTLDs[i]
    ELSE tld \in BuiltinTLDs

isValidTLD(ev, tld) ==
    IF Len(ev.allowTLDs) > 0
    THEN \E i \in 1..Len(ev.allowTLDs) : EqualFold(tld, ev.allowTLDs[i])
    ELSE ToLower(tld) \in BuiltinTLDs

\* the first failing domain part decides the error of the loop
Opt_checkDomainParts(domainParts) ==
    LET bad == {k \in 1..Len(domainParts) :
                  \/ Len(domainParts[k]) > MaxLabelLen
                  \/ HasPrefix(domainParts[k], <<"-">>)
                  \/ HasSuffix(domainParts[k], <<"-">>)}
    IN  IF bad = {} THEN Nil
        ELSE LET k == CHOOSE x \in bad : \A y \in bad : x <= y
             IN  IF Len(domainParts[k]) > MaxLabelLen
                 THEN Err("domain part exceeds maximum length (63 characters)")
                 ELSE Err("domain part cannot start or end with hyphen")

Opt_validateDomain(ev, domain) ==
    IF domain = <<>> THEN Err("domain cannot be empty")
    ELSE IF HasPrefix(domain, <<"[">>) /\ HasSuffix(domain, <<"]">>)
    THEN IF ~ev.allowIPAddresses
         THEN Err("IP address domains are not allowed")
         ELSE validateIPDomain(SubSeq(domain, 2, Len(domain) - 1))
    ELSE LET domainParts == Split(domain, ".")
         IN  IF Len(domainParts) < 2
             THEN Err("domain must have at least two parts")
             ELSE IF ~isValidTLD(ev, domainParts[Len(domainParts)])
             THEN Err("invalid top-level domain")
             ELSE Opt_checkDomainParts(domainParts)

isDomainBlocked(ev, domain) == ToLower(domain) \in ev.blockedDomains

\* normalizeEmail that drops one white-space character at each end only
normalizeEmail_trimOnce(email) == TrimSpaceOnce(ToLower(email))

normalizeEmail(email) == TrimSpace(ToLower(email))

\* Opt_Validate with a format gate that returns without recording its error
Opt_Validate_silentGate(ev, email) ==
    IF ~Opt_isValidFormat(email) THEN EmptyResult
    ELSE LET parts == splitEmail(email)
             errors == Opt_validateLocalPart(parts[1])
                       \o Opt_validateDomain(ev, parts[2])
                       \o (IF isDomainBlocked(ev, parts[2])
                           THEN <<"Domain is blocked">> ELSE <<>>)
         IN  [EmptyResult EXCEPT
                !.errors = errors,
                !.isValid = Len(errors) = 0,
                !.normalized = IF Len(errors) = 0 THEN normalizeEmail(email)
                               ELSE <<>>,
                !.ran = {"localPart", "domain", "blocked"}]

Opt_Validate(ev, email) ==
    IF ~Opt_isValidFormat(email)
    THEN [EmptyResult EXCEPT !.errors = <<"Invalid email format">>]
    ELSE LET parts == splitEmail(email)
             localPart == parts[1]
             domain == parts[2]
             errors == Opt_validateLocalPart(localPart)
                       \o Opt_validateDomain(ev, domain)
                       \o (IF isDomainBlocked(ev, domain)
                           THEN <<"Domain is blocked">> ELSE <<>>)
             isValid == Len(errors) = 0
         IN  [EmptyResult EXCEPT
                !.errors = errors,
                !.isValid = isValid,
                !.normalized = IF isValid THEN normalizeEmail(email) ELSE <<>>,
                !.ran = {"localPart", "domain", "blocked"}]

----------------------------------------------------------------------------
(* Variant "disp": NewEmailValidator() *)

DefaultDisposableDomains ==
    {<<"t","e","m","p","m","a","i","l",".","c","o","m">>,
     <<"t","h","r","o","w","a","w","a","y",".","c","o","m">>,
     <<"g","u","e","r","r","i","l","l","a","m","a","i","l",".","c","o","m">>,
     <<"m","a","i","l","i","n","a","t","o","r",".","c","o","m">>,
     <<"y","o","p","m","a","i","l",".","c","o","m">>,
     <<"1","0","m","i","n","u","t","e","m","a","i","l",".","c","o","m">>}

NewEmailValidator ==
    [ZeroValidator EXCEPT !.kind = "disp",
                          !.disposableDomains = DefaultDisposableDomains]

isDisposableDomain(ev, domain) == domain \in ev.disposableDomains

\* net.LookupMX answers with records, with none, or fails
LookupOutcomes == {"records", "none", "error"}

\* checkMXRecords that reports a failed lookup as an answer without records
checkMXRecords_failAsNone(domain, mx) == <<mx = "records", FALSE>>

\* <<hasMX, failed>>
checkMXRecords(domain, mx) ==
    IF mx = "error" THEN <<FALSE, TRUE>> ELSE <<mx = "records", FALSE>>

\* AddDisposableDomain that stores the domain in the letter case given
AddDisposableDomain_asGiven(ev, domain) ==
    [ev EXCEPT !.disposableDomains = @ \cup {domain}]

AddDisposableDomain(ev, domain) ==
    [ev EXCEPT !.disposableDomains = @ \cup {ToLower(domain)}]

RemoveDisposableDomain(ev, domain) ==
    [ev EXCEPT !.disposableDomains = @ \ {ToLower(domain)}]

Disp_Validate(ev, email, mx) ==
    LET normalized == TrimSpace(ToLower(email))
        result == [EmptyResult EXCEPT !.normalized = normalized]
    IN  IF normalized = <<>>
        THEN [result EXCEPT !.isValid = FALSE,
                            !.errors = <<"Email cannot be empty">>]
        ELSE
        LET errors1 == IF Len(normalized) > MaxEmailLen
                       THEN <<"Email address too long (max 254 characters)">>
                       ELSE <<>>
            errors2 == errors1 \o (IF ~MatchEmailPattern(normalized)
                                   THEN <<"Invalid email format">> ELSE <<>>)
            parts == Split(normalized, "@")
        IN  IF Len(parts) # 2
            THEN [result EXCEPT !.isValid = FALSE,
                                !.errors = Append(errors2, "Invalid email structure")]
            ELSE
            LET localPart == parts[1]
                domain == parts[2]
                errors3 == errors2
                    \o (IF Len(localPart) > MaxLocalLen
                        THEN <<"Local part too long (max 64 characters)">> ELSE <<>>)
                    \o (IF localPart = <<>>
                        THEN <<"Local part cannot be empty">> ELSE <<>>)
                    \o (IF Len(domain) > MaxDomainLen
                        THEN <<"Domain too long (max 253 characters)">> ELSE <<>>)
                    \o (IF domain = <<>>
                        THEN <<"Domain cannot be empty">> ELSE <<>>)
                disposable == isDisposableDomain(ev, domain)
                errors4 == errors3
                    \o (IF disposable
                        THEN <<"Disposable email addresses are not allowed">>
                        ELSE <<>>)
                looked == checkMXRecords(domain, mx)
                hasMX == looked[1]
                failed == looked[2]
                errors == errors4
                    \o (IF ~failed /\ ~hasMX
                        THEN <<"Domain does not have valid MX records">>
                        ELSE <<>>)
            IN  [result EXCEPT
                   !.isDisposable = disposable,
                   !.hasMXRecord = IF failed THEN FALSE ELSE hasMX,
                   !.isValid = Len(errors) = 0,
                   !.errors = errors,
                   !.ran = {"localPart", "domain", "disposable"},
                   !.lookups = 1,
                   !.lookupErrors = IF mx = "error" THEN 1 ELSE 0]

----------------------------------------------------------------------------
(* Variant "res": New() / NewStrict() *)

Res_New == [ZeroValidator EXCEPT !.kind = "res", !.strictMode = FALSE]

NewStrict == [ZeroValidator EXCEPT !.kind = "res", !.strictMode = TRUE]

Res_isValidFormat(email) == MatchEmailPattern(email)

UsernameSpecials ==
    {"!", "#", "$", "%", "&", "'", "*", "+", "-", "/", "=", "?", "^", "_",
     Backtick, "{", "|", "}", "~", "."}

\* unicode.IsLetter and unicode.IsDigit on the characters of the model
isValidUsernameChar(char) == char \in AlphaNum \cup UsernameSpecials

Res_isValidDomainChar(char) == char \in AlphaNum \cup {"-"}

validateUsername(ev, username) ==
    IF Len(username) = 0 THEN Err("username cannot be empty")
    ELSE IF Len(username) > MaxLocalLen
    THEN Err("username too long (max 64 characters)")
    ELSE IF Contains(username, <<".", ".">>)
    THEN Err("username cannot contain consecutive dots")
    ELSE IF HasPrefix(username, <<".">>) \/ HasSuffix(username, <<".">>)
    THEN Err("username cannot start or end with a dot")
    ELSE IF ev.strictMode
            /\ \E i \in 1..Len(username) : ~isValidUsernameChar(username[i])
    THEN Err("username contains invalid characters")
    ELSE Nil

\* the error of one domain part, Nil when the part is fine
Res_checkDomainPart(part) ==
    IF Len(part) = 0 THEN Err("domain part cannot be empty")
    ELSE IF Len(part) > MaxLabelLen
    THEN Err("domain part too long (max 63 characters)")
    ELSE IF HasPrefix(part, <<"-">>) \/ HasSuffix(part, <<"-">>)
    THEN Err("domain part cannot start or end with hyphen")
    ELSE IF \E i \in 1..Len(part) : ~Res_isValidDomainChar(part[i])
    THEN Err("domain contains invalid characters")
    ELSE Nil

Res_validateDomain(domain) ==
    IF Len(domain) = 0 THEN Err("domain cannot be empty")
    ELSE IF Len(domain) > MaxDomainLen
    THEN Err("domain too long (max 253 characters)")
    ELSE LET domainParts == Split(domain, ".")
         IN  IF Len(domainParts) < 2
             THEN Err("domain must have at least two parts")
             ELSE LET bad == {k \in 1..Len(domainParts) :
                                Res_checkDomainPart(domainParts[k]) # Nil}
                  IN  IF bad = {} THEN Nil
                      ELSE Res_checkDomainPart(
                             domainParts[CHOOSE x \in bad : \A y \in bad : x <= y])

\* typo -> correction
CommonTypos ==
    {<<<<"g","m","i","a","l",".","c","o","m">>, <<"g","m","a","i","l",".","c","o","m">>>>,
     <<<<"g","m","a","l",".","c","o","m">>, <<"g","m","a","i","l",".","c","o","m">>>>,
     <<<<"g","m","a","i",".","c","o","m">>, <<"g","m","a","i","l",".","c","o","m">>>>,
     <<<<"y","a","h","o","o","o",".","c","o","m">>, <<"y","a","h","o","o",".","c","o","m">>>>,
     <<<<"y","a","h","o",".","c","o","m">>, <<"y","a","h","o","o",".","c","o","m">>>>,
     <<<<"h","o","t","m","a","l",".","c","o","m">>, <<"h","o","t","m","a","i","l",".","c","o","m">>>>,
     <<<<"h","o","t","m","a","i",".","c","o","m">>, <<"h","o","t","m","a","i","l",".","c","o","m">>>>}

\* the warning names the typo and its correction; no warning is <<>>
checkForTypos(email) ==
    LET lowerEmail == ToLower(email)
        hits == {t \in CommonTypos : Contains(lowerEmail, <<"@">> \o t[1])}
    IN  IF hits = {} THEN <<>>
        ELSE LET t == CHOOSE x \in hits : TRUE
             IN  <<[typo |-> t[1], correct |-> t[2]]>>

\* Res_Validate that fills normalized only for a valid address
Res_Validate_normalizedIfValid(ev, email) ==
    IF ~Res_isValidFormat(email)
    THEN [EmptyResult EXCEPT !.errors = <<"Invalid email format">>]
    ELSE LET parts == splitEmail(email)
             errors == validateUsername(ev, parts[1]) \o Res_validateDomain(parts[2])
         IN  [EmptyResult EXCEPT
                !.username = parts[1],
                !.domain = parts[2],
                !.errors = errors,
                !.warnings = checkForTypos(email),
                !.normalized = IF Len(errors) = 0 THEN ToLower(TrimSpace(email))
                               ELSE <<>>,
                !.isValid = Len(errors) = 0,
                !.ran = {"localPart", "domain"}]

Res_Validate(ev, email) ==
    IF ~Res_isValidFormat(email)
    THEN [EmptyResult EXCEPT !.errors = <<"Invalid email format">>]
    ELSE LET parts == splitEmail(email)
             username == parts[1]
             domain == parts[2]
             errors == validateUsername(ev, username) \o Res_validateDomain(domain)
         IN  [EmptyResult EXCEPT
                !.username = username,
                !.domain = domain,
                !.errors = errors,
                !.warnings = checkForTypos(email),
                !.normalized = ToLower(TrimSpace(email)),
                !.isValid = Len(errors) = 0,
                !.ran = {"localPart", "domain"}]

----------------------------------------------------------------------------
(* Variant "err": New() and WithStrictMode(), Validate returns one error *)

Err_New == [ZeroValidator EXCEPT !.kind = "err", !.strictMode = FALSE]

WithStrictMode(ev) == [ev EXCEPT !.strictMode = TRUE]

validateFormat(email) ==
    IF ~Contains(email, <<"@">>) THEN Err("email must contain @ symbol")
    ELSE LET parts == Split(email, "@")
         IN  IF Len(parts) # 2 THEN Err("email must contain exactly one @ symbol")
             ELSE IF parts[1] = <<>> THEN Err("local part cannot be empty")
             ELSE IF parts[2] = <<>> THEN Err("domain part cannot be empty")
             ELSE IF Len(email) > MaxEmailLen
             THEN Err("email address cannot exceed 254 characters")
             ELSE IF Len(parts[1]) > MaxLocalLen
             THEN Err("local part cannot exceed 64 characters")
             ELSE Nil

isValidStrictLocalChar(char) ==
    char \in LowerLetters \cup UpperLetters \cup Digits
             \cup {"!", "#", "$", "%", "&", "'", "*", "+", "-", "/", "=", "?",
                   "^", "_", Backtick, "{", "|", "}", "~", "."}

isValidRelaxedLocalChar(char) ==
    char \in LowerLetters \cup UpperLetters \cup Digits \cup {".", "-", "_", "+"}

Err_isValidDomainChar(char) ==
    char \in LowerLetters \cup UpperLetters \cup Digits \cup {"-"}

Err_validateLocalPart(ev, email) ==
    LET localPart == Split(email, "@")[1]
    IN  IF HasPrefix(localPart, <<".">>) \/ HasSuffix(localPart, <<".">>)
        THEN Err("local part cannot start or end with a dot")
        ELSE IF Contains(localPart, <<".", ".">>)
        THEN Err("local part cannot contain consecutive dots")
        ELSE IF \E i \in 1..Len(localPart) :
                   IF ev.strictMode THEN ~isValidStrictLocalChar(localPart[i])
                   ELSE ~isValidRelaxedLocalChar(localPart[i])
        THEN Err("local part contains invalid characters")
        ELSE Nil

\* the error of one label, Nil when the label is fine: the characters are
\* visited in order and the first offending one decides
Err_checkLabel(label) ==
    IF Len(label) = 0 THEN Err("domain label cannot be empty")
    ELSE IF Len(label) > MaxLabelLen
    THEN Err("domain label cannot exceed 63 characters")
    ELSE LET bad == {i \in 1..Len(label) :
                       \/ ((i = 1 \/ i = Len(label)) /\ label[i] = "-")
                       \/ ~Err_isValidDomainChar(label[i])}
         IN  IF bad = {} THEN Nil
             ELSE LET i == CHOOSE x \in bad : \A y \in bad : x <= y
                  IN  IF (i = 1 \/ i = Len(label)) /\ label[i] = "-"
                      THEN Err("domain label cannot start or end with hyphen")
                      ELSE Err("domain contains invalid characters")

validateDomainPart(email) ==
    LET domainPart == Split(email, "@")[2]
    IN  IF HasPrefix(domainPart, <<"-">>) \/ HasSuffix(domainPart, <<"-">>)
        THEN Err("domain cannot start or end with hyphen")
        ELSE IF HasPrefix(domainPart, <<".">>) \/ HasSuffix(domainPart, <<".">>)
        THEN Err("domain cannot start or end with dot")
        ELSE LET labels == Split(domainPart, ".")
                 bad == {k \in 1..Len(labels) : Err_checkLabel(labels[k]) # Nil}
                 tld == labels[Len(labels)]
             IN  IF Len(labels) < 2 THEN Err("domain must have at least two parts")
                 ELSE IF bad # {}
                 THEN Err_checkLabel(labels[CHOOSE x \in bad : \A y \in bad : x <= y])
                 ELSE IF Len(tld) < 2 THEN Err("TLD must be at least 2 characters")
                 ELSE IF \E i \in 1..Len(tld) : tld[i] \in Digits
                 THEN Err("TLD should not contain numbers")
                 ELSE Nil

\* the error returned, with the rules that ran before it
Err_Validate(ev, email) ==
    LET done(err, ran) == [EmptyResult EXCEPT !.errors = err,
                                              !.isValid = (err = Nil),
                                              !.ran = ran]
    IN  IF email = <<>> THEN done(Err("email cannot be empty"), {})
        ELSE IF validateFormat(email) # Nil THEN done(validateFormat(email), {})
        ELSE IF Err_validateLocalPart(ev, email) # Nil
        THEN done(Err_validateLocalPart(ev, email), {"localPart"})
        ELSE done(validateDomainPart(email), {"localPart", "domain"})

----------------------------------------------------------------------------
(* The rules of validation_rules.go.  A rule object is kept in the same    *)
(* record as a validator; its Validate returns one error or nil.           *)

NewFormatRule == [ZeroValidator EXCEPT !.kind = "formatRule"]

NewLengthRule == [ZeroValidator EXCEPT !.kind = "lengthRule"]

NewDisposableDomainRule(domains) ==
    [ZeroValidator EXCEPT !.kind = "disposableRule", !.disposableDomains = domains]

FormatRule_Validate(email) ==
    IF ~MatchEmailPattern(email) THEN Err("Invalid email format") ELSE Nil

LengthRule_Validate(email) ==
    IF Len(email) > MaxEmailLen THEN Err("Email too long (max 254 characters)")
    ELSE LET parts == Split(email, "@")
         IN  IF Len(parts) # 2 THEN Err("Invalid email structure")
             ELSE IF Len(parts[1]) > MaxLocalLen
             THEN Err("Local part too long (max 64 characters)")
             ELSE IF Len(parts[2]) > MaxDomainLen
             THEN Err("Domain too long (max 253 characters)")
             ELSE Nil

DisposableDomainRule_Validate(r, email) ==
    LET parts == Split(ToLower(email), "@")
    IN  IF Len(parts) # 2 THEN Err("Invalid email structure")
        ELSE IF parts[2] \in r.disposableDomains
        THEN Err("Disposable email addresses are not allowed")
        ELSE Nil

RuleKinds == {"formatRule", "lengthRule", "disposableRule"}

\* ValidationRule.Validate of the rule r, as a result with at most one error
Rule_Validate(r, email) ==
    LET err == CASE r.kind = "formatRule" -> FormatRule_Validate(email)
                 [] r.kind = "lengthRule" -> LengthRule_Validate(email)
                 [] r.kind = "disposableRule" -> DisposableDomainRule_Validate(r, email)
    IN  [EmptyResult EXCEPT !.errors = err, !.isValid = (err = Nil),
                            !.ran = {r.kind}]

----------------------------------------------------------------------------
(* The inputs of the model *)

\* the longest string of the exhaustive part of the inputs
MaxLen == 3

ShortAlphabet == {"c", "C", ".", "@", " ", "-", "[", "!"}

\* every string over ShortAlphabet up to MaxLen characters
ShortStrings == UNION {[1..n -> ShortAlphabet] : n \in 0..MaxLen}

LocalParts ==
    {<<>>, <<"c">>, <<"C">>, <<"c","1">>, <<"c",".","c">>, <<".","c">>,
     <<"c",".">>, <<"c",".",".","c">>, <<"c","+","c">>, <<"c","!","c">>,
     <<"c","-","c">>, <<"c","_","c">>, <<"c"," ","c">>, <<"c","(","c">>,
     <<"u","s","e","r">>}

DomainParts ==
    {<<>>, <<"c","o">>, <<"c",".","c","o">>, <<"C",".","C","O">>,
     <<"c",".","C","o">>, <<"c",".","c">>, <<"c",".","c","c">>,
     <<"c",".","i","o">>, <<".","c","o">>, <<"c",".">>,
     <<"c",".",".","c","o">>, <<"c",".","c","o",".">>,
     <<"-","c",".","c","o">>, <<"c","-",".","c","o">>,
     <<"c","-","c",".","c","o">>, <<"c",".","c",".","c","o">>,
     <<"c",".","c","1">>, <<"c","_","c",".","c","o">>,
     <<"c",".","-","c","o">>, <<"[","1",".","1",".","1",".","1","]">>,
     <<"[","1",".","1",".","1","]">>, <<"[","c","]">>,
     <<"[",":",":","1","]">>,
     <<"[","1","9","2",".","1","6","8",".","1",".","1","]">>,
     <<"e","x","a","m","p","l","e",".","c","o","m">>,
     <<"e","x","a","m","p","l","e",".","i","o">>,
     <<"t","e","m","p","m","a","i","l",".","c","o","m">>,
     <<"x",".","t","e","m","p","m","a","i","l",".","c","o","m">>,
     <<"g","m","a","i",".","c","o","m">>}

Padding == {<<>>, <<" ">>}

\* padding, local-part, one separator, domain, padding
ShapedStrings ==
    {pre \o l \o <<"@">> \o d \o post :
        pre \in Padding, l \in LocalParts, d \in DomainParts, post \in Padding}

Repeat(c, n) == [i \in 1..n |-> c]

\* a label of the greatest length the format pattern admits
FullLabel == Repeat("c", MaxLabelLen)

\* addresses that go beyond one or several of the length bounds
LongStrings ==
    {Repeat("c", MaxLocalLen + 1) \o <<"@","c",".","c","o">>,
     <<".">> \o Repeat("c", MaxLocalLen) \o <<"@","c",".","c","o">>,
     <<".","c","@">> \o Repeat("c", MaxLabelLen + 1) \o <<".","c","o">>,
     <<"c","@">> \o FullLabel \o <<".">> \o FullLabel \o <<".">>
         \o FullLabel \o <<".">> \o FullLabel,
     Repeat("c", MaxLocalLen + 1) \o <<"@">> \o FullLabel \o <<".">>
         \o FullLabel \o <<".">> \o FullLabel \o <<".","c","o">>}

Emails == ShortStrings \cup ShapedStrings \cup LongStrings

TLDLists ==
    {<<>>, <<<<"c","o">>>>, <<<<"C","O">>, <<"i","o">>>>, <<<<"c">>>>, <<<<"c","o","m">>, <<"o","r","g">>>>}

BlockedLists == {<<>>, <<<<"c",".","c","o">>>>, <<<<"C",".","C","o">>, <<"e","x","a","m","p","l","e",".","c","o","m">>>>}

OptionLists ==
    {(IF tlds = <<>> THEN <<>>
      ELSE <<[name |-> "WithAllowedTLDs", arg |-> tlds]>>)
     \o (IF blocked = <<>> THEN <<>>
         ELSE <<[name |-> "WithBlockedDomains", arg |-> blocked]>>)
     \o ip :
        tlds \in TLDLists, blocked \in BlockedLists,
        ip \in {<<>>, <<[name |-> "WithIPAddresses", arg |-> TRUE]>>,
                <<[name |-> "WithIPAddresses", arg |-> FALSE]>>}}

\* the domains a caller adds to or removes from the disposable registry
RegistryArgs == {<<"c",".","c","o">>, <<"C",".","C","O">>, <<"t","e","m","p","m","a","i","l",".","c","o","m">>, <<"T","e","m","p","M","a","i","l",".","c","o","m">>}

----------------------------------------------------------------------------
(* The state machine: a validator is constructed, then a caller validates  *)
(* one address after another and, between calls, may change the validator. *)

Idle == [pc |-> "idle", email |-> <<>>, res |-> EmptyResult]

Done(email, res) == [pc |-> "done", email |-> email, res |-> res]

Init ==
    /\ v \in {Opt_New(options) : options \in OptionLists}
             \cup {NewEmailValidator, Res_New, NewStrict, Err_New}
             \cup {NewFormatRule, NewLengthRule,
                   NewDisposableDomainRule(DefaultDisposableDomains)}
    /\ call = Idle

ValidateOpt ==
    /\ call.pc = "idle"
    /\ v.kind = "opt"
    /\ \E email \in Emails : call' = Done(email, Opt_Validate(v, email))
    /\ UNCHANGED v

ValidateDisp ==
    /\ call.pc = "idle"
    /\ v.kind = "disp"
    /\ \E email \in Emails, mx \in LookupOutcomes :
          call' = Done(email, Disp_Validate(v, email, mx))
    /\ UNCHANGED v

ValidateRes ==
    /\ call.pc = "idle"
    /\ v.kind = "res"
    /\ \E email \in Emails : call' = Done(email, Res_Validate(v, email))
    /\ UNCHANGED v

ValidateErr ==
    /\ call.pc = "idle"
    /\ v.kind = "err"
    /\ \E email \in Emails : call' = Done(email, Err_Validate(v, email))
    /\ UNCHANGED v

ValidateRule ==
    /\ call.pc = "idle"
    /\ v.kind \in RuleKinds
    /\ \E email \in Emails : call' = Done(email, Rule_Validate(v, email))
    /\ UNCHANGED v

\* the caller is done with the result and goes on
Return ==
    /\ call.pc = "done"
    /\ call' = Idle
    /\ UNCHANGED v

AddDisposable ==
    /\ call.pc = "idle"
    /\ v.kind = "disp"
    /\ \E domain \in RegistryArgs : v' = AddDisposableDomain(v, domain)
    /\ UNCHANGED call

RemoveDisposable ==
    /\ call.pc = "idle"
    /\ v.kind = "disp"
    /\ \E domain \in RegistryArgs : v' = RemoveDisposableDomain(v, domain)
    /\ UNCHANGED call

StrictMode ==
    /\ call.pc = "idle"
    /\ v.kind = "err"
    /\ v' = WithStrictMode(v)
    /\ UNCHANGED call

Next ==
    \/ ValidateOpt
    \/ ValidateDisp
    \/ ValidateRes
    \/ ValidateErr
    \/ ValidateRule
    \/ Return
    \/ AddDisposable
    \/ RemoveDisposable
    \/ StrictMode

Spec == Init /\ [][Next]_vars

----------------------------------------------------------------------------
(* Properties *)

Has(errors, msg) == \E i \in 1..Len(errors) : errors[i] = msg

Returned == call.pc = "done"

\* the variants whose Validate returns a ValidationResult
ResultKinds == {"opt", "disp", "res"}

\* the string the rules of the variant look at: the disposable/MX variant
\* normalizes first, the others take the input as it is
Examined == IF v.kind = "disp" THEN TrimSpace(ToLower(call.email)) ELSE call.email

\* C1: the result of Validate has isValid true exactly when its errors list
\* is empty, on every return path of the three result-returning variants.
C1_ValidIffNoErrors ==
    (Returned /\ v.kind \in ResultKinds)
        => (call.res.isValid <=> call.res.errors = <<>>)

\* an early return: the disposable/MX variant left at the structure check
\* with the errors gathered so far
C1_Witness ==
    /\ Returned
    /\ v.kind = "disp"
    /\ call.res.ran = {}
    /\ Len(call.res.errors) = 2
    /\ ~call.res.isValid

\* the format check of the variant fails on the call's input
FormatFails ==
    IF v.kind = "opt" THEN ~Opt_isValidFormat(call.email)
    ELSE ~MatchEmailPattern(Examined)

\* C2: whenever the format check fails, Validate returns isValid=false with
\* exactly one error, runs no rule after the format check and makes no DNS
\* lookup.
C2_FormatGateShortCircuits ==
    (Returned /\ v.kind \in ResultKinds /\ FormatFails)
        => /\ ~call.res.isValid
           /\ Len(call.res.errors) = 1
           /\ call.res.ran = {}
           /\ call.res.lookups = 0

\* the default validators made by New()
DefaultValidators == {Opt_New(<<>>), Res_New}

AllIn(s, chars) == \A i \in 1..Len(s) : s[i] \in chars

\* local@label.tld: one separator, a local-part of letters, digits, '.' and
\* '+', and exactly two alphanumeric labels
IsLocalLabelTLD(s) ==
    LET parts == Split(s, "@")
    IN  /\ Len(parts) = 2
        /\ parts[1] # <<>>
        /\ AllIn(parts[1], AlphaNum \cup {".", "+"})
        /\ LET labels == Split(parts[2], ".")
           IN  /\ Len(labels) = 2
               /\ \A k \in 1..2 : labels[k] # <<>> /\ AllIn(labels[k], AlphaNum)

\* what the claim says is rejected: the empty string, no separator, an empty
\* local-part, an empty domain, an empty label, a single-label domain
IsRejectable(s) ==
    \/ s = <<>>
    \/ ~Contains(s, <<"@">>)
    \/ LET parts == Split(s, "@")
       IN  /\ Len(parts) = 2
           /\ \/ parts[1] = <<>>
              \/ parts[2] = <<>>
              \/ Len(Split(parts[2], ".")) < 2
              \/ \E k \in 1..Len(Split(parts[2], ".")) : Split(parts[2], ".")[k] = <<>>

\* the result the claim gives an accepted address
AcceptedAsIs ==
    /\ call.res.isValid
    /\ call.res.normalized = ToLower(call.email)
    /\ (v.kind = "res" =>
          /\ call.res.domain = Split(call.email, "@")[2]
          /\ call.res.username = Split(call.email, "@")[1])

DotsWellPlaced(l) ==
    ~HasPrefix(l, <<".">>) /\ ~HasSuffix(l, <<".">>) /\ ~Contains(l, <<".", ".">>)

WithinLengths(s) ==
    LET parts == Split(s, "@")
        labels == Split(parts[2], ".")
    IN  /\ Len(s) <= MaxEmailLen
        /\ Len(parts[1]) <= MaxLocalLen
        /\ Len(parts[2]) <= MaxDomainLen
        /\ \A k \in 1..Len(labels) : Len(labels[k]) <= MaxLabelLen

\* C3 as stated: with New(), every address local@label.tld whose local-part
\* uses letters, digits, '.' or '+' is accepted with normalized, domain and
\* localPart filled in, and the listed malformed strings are rejected.
C3_AcceptsEveryLocalLabelTLD ==
    (Returned /\ v \in DefaultValidators)
        => /\ (IsLocalLabelTLD(call.email) => AcceptedAsIs)
           /\ (IsRejectable(call.email) => ~call.res.isValid)

\* C3 amended: with New(), an address local@label.tld within the length
\* limits is accepted when its local-part uses letters, digits, '.' or '+'
\* with no leading, trailing or doubled '.', and (options variant) its tld is
\* in the built-in registry; normalized is the lowercased address and the
\* result variant reports domain and local-part; the listed malformed
\* strings are rejected.
C3_AcceptsWellFormed ==
    (Returned /\ v \in DefaultValidators)
        => /\ ( ( /\ IsLocalLabelTLD(call.email)
                  /\ WithinLengths(call.email)
                  /\ DotsWellPlaced(Split(call.email, "@")[1])
                  /\ (v.kind = "opt" =>
                        ToLower(Split(Split(call.email, "@")[2], ".")[2])
                            \in BuiltinTLDs) )
                => AcceptedAsIs )
           /\ (IsRejectable(call.email) => ~call.res.isValid)

UserAtExampleCom == <<"u","s","e","r","@","e","x","a","m","p","l","e",".","c","o","m">>

\* user@example.com accepted by the options variant's New()
C3_Witness ==
    /\ Returned
    /\ v = Opt_New(<<>>)
    /\ call.email = UserAtExampleCom
    /\ call.res.isValid
    /\ call.res.normalized = UserAtExampleCom

\* Validate of the variant on another input, with the lookup answering mx
ValidateOf(ev, email, mx) ==
    CASE ev.kind = "opt" -> Opt_Validate(ev, email)
      [] ev.kind = "disp" -> Disp_Validate(ev, email, mx)
      [] ev.kind = "res" -> Res_Validate(ev, email)
      [] ev.kind = "err" -> Err_Validate(ev, email)

\* C4: Validate(x) has the verdict and the errors of
\* Validate(trim(lowercase(x))): the rules see the normalized form only.
C4_NormalizedFirst ==
    (Returned /\ v.kind \in ResultKinds)
        => \E mx \in LookupOutcomes :
              LET r == ValidateOf(v, TrimSpace(ToLower(call.email)), mx)
              IN  /\ call.res.isValid = r.isValid
                  /\ call.res.errors = r.errors

\* C5 as stated: normalized is trim(lowercase(x)) after every call, valid or
\* not, also when the format gate fails.
C5_NormalizedAlways ==
    (Returned /\ v.kind \in ResultKinds)
        => call.res.normalized = TrimSpace(ToLower(call.email))

\* C5 amended: normalized is trim(lowercase(x)) after every call of the
\* disposable/MX variant; the result variant fills it whenever the format
\* gate passes (valid or not) and leaves it empty when the gate fails; the
\* options variant fills it only when isValid and leaves it empty otherwise.
C5_NormalizedPerVariant ==
    Returned
        => /\ (v.kind = "disp" =>
                 call.res.normalized = TrimSpace(ToLower(call.email)))
           /\ (v.kind = "res" =>
                 call.res.normalized =
                    IF Has(call.res.errors, "Invalid email format") THEN <<>>
                    ELSE TrimSpace(ToLower(call.email)))
           /\ (v.kind = "opt" =>
                 call.res.normalized =
                    IF call.res.isValid THEN TrimSpace(ToLower(call.email))
                    ELSE <<>>)

\* the result variant reports the canonical form of an address it rejects
C5_Witness ==
    /\ Returned
    /\ v.kind = "res"
    /\ ~call.res.isValid
    /\ call.res.normalized # <<>>
    /\ call.res.normalized # call.email

\* C6: normalization is idempotent: normalizing a normalized string, and the
\* normalized field of a result, changes nothing.
C6_NormalizeIdempotent ==
    Returned
        => /\ normalizeEmail(normalizeEmail(call.email)) = normalizeEmail(call.email)
           /\ normalizeEmail(call.res.normalized) = call.res.normalized

\* a call whose input had both padding and capitals to normalize away
C6_Witness ==
    /\ Returned
    /\ v.kind = "disp"
    /\ call.res.normalized # <<>>
    /\ call.res.normalized # ToLower(call.email)
    /\ call.res.normalized # TrimSpace(call.email)
    /\ call.res.normalized = normalizeEmail(call.email)

\* the local-part and the domain the variant's rules see, when the examined
\* string has exactly one separator
OneSeparator == Len(Split(Examined, "@")) = 2

LocalSeen == Split(Examined, "@")[1]

DomainSeen == Split(Examined, "@")[2]

BadlyDotted(l) ==
    l = <<>> \/ HasPrefix(l, <<".">>) \/ HasSuffix(l, <<".">>) \/ Contains(l, <<".", ".">>)

\* the diagnostics that name the local-part
LocalPartDiagnostics ==
    {"local part cannot be empty", "Local part cannot be empty",
     "local part cannot contain consecutive dots",
     "local part cannot start or end with a dot",
     "username cannot be empty", "username cannot contain consecutive dots",
     "username cannot start or end with a dot"}

\* the diagnostics of a format check that turned the address away before
\* the local-part was looked at
FormatDiagnostics ==
    {"Invalid email format", "domain part cannot be empty",
     "email address cannot exceed 254 characters",
     "local part cannot exceed 64 characters"}

\* C7: in strict and in relaxed mode alike, an address whose local-part is
\* empty, starts or ends with '.', or holds '..' is rejected, with a
\* diagnostic about the local-part (or the format diagnostic of the gate
\* that stopped it).
C7_RejectsBadlyDottedLocal ==
    (Returned /\ OneSeparator /\ BadlyDotted(LocalSeen))
        => /\ ~call.res.isValid
           /\ \E i \in 1..Len(call.res.errors) :
                 call.res.errors[i] \in LocalPartDiagnostics \cup FormatDiagnostics

\* C8: under every configuration an address whose final domain label has
\* fewer than 2 characters is rejected.
C8_RejectsShortTLD ==
    (Returned /\ v.kind \in {"opt", "res"} /\ OneSeparator
        /\ Len(Split(DomainSeen, ".")) >= 2
        /\ Len(Split(DomainSeen, ".")[Len(Split(DomainSeen, "."))]) < 2)
        => ~call.res.isValid

\* the whitelist rule as the claim words it
TLDListed(allowed, tld) ==
    IF allowed # <<>>
    THEN \E i \in 1..Len(allowed) : ToLower(allowed[i]) = ToLower(tld)
    ELSE ToLower(tld) \in BuiltinTLDs

\* C9: an address that reaches the TLD check passes it exactly when its final
\* label is, case-insensitively, an entry of allowedTLDs, or of the built-in
\* registry when allowedTLDs is empty.
C9_TLDWhitelist ==
    (Returned /\ v.kind = "opt" /\ call.res.ran # {}
        /\ Len(Split(DomainSeen, ".")) >= 2)
        => ( Has(call.res.errors, "invalid top-level domain")
             <=> ~TLDListed(v.allowTLDs, Split(DomainSeen, ".")[Len(Split(DomainSeen, "."))]) )

UserAtExampleIo == <<"u","s","e","r","@","e","x","a","m","p","l","e",".","i","o">>

\* with {com, org} allowed, user@example.io fails the TLD check
C9_Witness ==
    /\ Returned
    /\ v.kind = "opt"
    /\ v.allowTLDs = <<<<"c","o","m">>, <<"o","r","g">>>>
    /\ call.email = UserAtExampleIo
    /\ Has(call.res.errors, "invalid top-level domain")
    /\ ~call.res.isValid

IsBracketed(d) == Len(d) >= 2 /\ HasPrefix(d, <<"[">>) /\ HasSuffix(d, <<"]">>)

\* C10: an address whose domain is a bracketed IP literal is valid when IP
\* domains are allowed and gets "IP address domains are not allowed" when
\* they are not; bracketed text that is no IP address gets "invalid IP
\* address in domain".
C10_IPLiteralDomains ==
    (Returned /\ v.kind = "opt" /\ OneSeparator
        /\ LocalSeen # <<>> /\ AllIn(LocalSeen, AlphaNum)
        /\ IsBracketed(DomainSeen))
        => LET ip == SubSeq(DomainSeen, 2, Len(DomainSeen) - 1)
           IN  IF ~v.allowIPAddresses
               THEN ParseIP(ip) =>
                       /\ ~call.res.isValid
                       /\ Has(call.res.errors, "IP address domains are not allowed")
               ELSE IF ParseIP(ip)
               THEN call.res.isValid \/ Has(call.res.errors, "Domain is blocked")
               ELSE /\ ~call.res.isValid
                    /\ Has(call.res.errors, "invalid IP address in domain")

\* the domain of the call's address equals a blocked entry, letter case aside
DomainBlocked ==
    \E d \in v.blockedDomains : EqualFold(d, splitEmail(call.email)[2])

\* the same validator with nothing blocked
Unblocked == [v EXCEPT !.blockedDomains = {}]

DisposableMessage == "Disposable email addresses are not allowed"

\* what a registry call with domain d may turn the registry r into
RegistryStep(r, d) == {r \cup {ToLower(d)}, r \ {ToLower(d)}}

\* C12: in the disposable/MX variant the registry starts as the default one,
\* changes only by adding or removing the lowercased argument of a registry
\* call, and a Validate of an address with exactly one '@' reports
\* isDisposable and the disposable error exactly when the lowercased domain
\* is an element of the registry at that moment (exact match).
C12_DisposableRegistry ==
    /\ [][(v.disposableDomains # v'.disposableDomains)
            => \E d \in RegistryArgs :
                  v'.disposableDomains \in RegistryStep(v.disposableDomains, d)]_vars
    /\ []((Returned /\ v.kind = "disp" /\ Len(Split(call.email, "@")) = 2)
            => LET domain == Split(TrimSpace(ToLower(call.email)), "@")[2]
                   listed == domain \in v.disposableDomains
               IN  /\ call.res.isDisposable <=> listed
                   /\ Has(call.res.errors, DisposableMessage) <=> listed)

\* after an addition in upper case and the removal of a default entry, an
\* address on the added domain is reported disposable
C12_Witness ==
    /\ Returned
    /\ v.kind = "disp"
    /\ <<"t","e","m","p","m","a","i","l",".","c","o","m">> \notin v.disposableDomains
    /\ call.res.isDisposable
    /\ Split(TrimSpace(ToLower(call.email)), "@")[2] = <<"c",".","c","o">>
    /\ Has(call.res.errors, DisposableMessage)

MXMessage == "Domain does not have valid MX records"

\* C13: when the MX lookup of a Validate call fails, no error is added for it
\* and hasMXRecord stays unset: the errors are those of the other rules, the
\* same as with any other lookup outcome once the MX error is set aside, and
\* isValid is decided by them alone.
C13_LookupErrorIsSilent ==
    (Returned /\ v.kind = "disp" /\ call.res.lookupErrors > 0)
        => /\ ~Has(call.res.errors, MXMessage)
           /\ ~call.res.hasMXRecord
           /\ \A mx \in LookupOutcomes :
                 SelectSeq(Disp_Validate(v, call.email, mx).errors,
                           LAMBDA e : e # MXMessage) = call.res.errors
           /\ call.res.isValid <=> call.res.errors = <<>>

\* a well-formed address whose lookup failed comes back valid
C13_Witness ==
    /\ Returned
    /\ v.kind = "disp"
    /\ call.res.lookupErrors = 1
    /\ call.res.isValid
    /\ ~call.res.hasMXRecord

\* C14: no Validate call performs a DNS lookup unless reachability checking
\* was enabled for it; no constructor or option of the program enables it,
\* so no call of any validator makes a lookup.
C14_ReachabilityOptIn == Returned => call.res.lookups = 0

----------------------------------------------------------------------------
(* DNS lookups as the caller sees them: a lookup is sent to the resolver,  *)
(* time passes while it is unanswered, and the call goes on when           *)
(* net.LookupMX or net.LookupIP returns.  Time is counted in seconds.      *)

DefaultTimeout == 5

NewDNSChecker == [kind |-> "dns", timeout |-> DefaultTimeout]

WithTimeout(d, timeout) == [d EXCEPT !.timeout = timeout]

\* <<hasMX, err>>
HasMXRecords(mx) ==
    IF mx = "error" THEN <<FALSE, Err("DNS lookup failed")>>
    ELSE <<mx = "records", Nil>>

\* <<hasA, err>>
HasARecords(ip) ==
    IF ip = "error" THEN <<FALSE, Err("DNS lookup failed")>>
    ELSE <<ip = "records", Nil>>

\* HasMXRecord of the result variant, after the lookup of the domain
HasMXRecord(mx) == ~(mx = "error" \/ mx = "none")

\* the longest a caller is followed while a lookup is unanswered
MaxWait == 6

Timeouts == {1, 3, DefaultTimeout}

DnsDomains == {<<>>, <<"c",".","c","o">>, <<"e","x","a","m","p","l","e",".","c","o","m">>}

DnsEmails ==
    {<<"c">>, <<"c","@","c",".","c","o">>, <<"c","@","@","c",".","c","o">>,
     <<"C","@","e","x","a","m","p","l","e",".","c","o","m">>,
     <<"c","@","t","e","m","p","m","a","i","l",".","c","o","m">>}

DnsIdle ==
    [pc |-> "idle", op |-> "", arg |-> <<>>, waited |-> 0, asked |-> {},
     mx |-> "", ret |-> <<>>]

\* the lookup of kind q ("MX" or "IP") is sent and the caller waits
Asking(c, q) ==
    [c EXCEPT !.pc = q, !.asked = @ \cup {q}, !.waited = 0]

Answered(c, ret) == [c EXCEPT !.pc = "done", !.ret = ret]

DnsInit ==
    /\ v \in {NewDNSChecker, NewEmailValidator, Res_New}
    /\ call = DnsIdle

SetTimeout ==
    /\ call.pc = "idle"
    /\ v.kind = "dns"
    /\ \E timeout \in Timeouts : v' = WithTimeout(v, timeout)
    /\ UNCHANGED call

CallHasMXRecords ==
    /\ call.pc = "idle"
    /\ v.kind = "dns"
    /\ \E domain \in DnsDomains :
          call' = Asking([DnsIdle EXCEPT !.op = "HasMXRecords", !.arg = domain], "MX")
    /\ UNCHANGED v

CallHasARecords ==
    /\ call.pc = "idle"
    /\ v.kind = "dns"
    /\ \E domain \in DnsDomains :
          call' = Asking([DnsIdle EXCEPT !.op = "HasARecords", !.arg = domain], "IP")
    /\ UNCHANGED v

CallIsDomainValid ==
    /\ call.pc = "idle"
    /\ v.kind = "dns"
    /\ \E domain \in DnsDomains :
          call' = Asking([DnsIdle EXCEPT !.op = "IsDomainValid", !.arg = domain], "MX")
    /\ UNCHANGED v

CallValidateEmailDomain ==
    /\ call.pc = "idle"
    /\ v.kind = "dns"
    /\ \E email \in DnsEmails :
          LET parts == Split(email, "@")
              c == [DnsIdle EXCEPT !.op = "ValidateEmailDomain", !.arg = email]
          IN  call' = IF Len(parts) # 2
                      THEN Answered(c, <<FALSE, Err("invalid email format")>>)
                      ELSE Asking(c, "MX")
    /\ UNCHANGED v

\* Validate of the disposable/MX variant, up to its MX lookup
CallValidate ==
    /\ call.pc = "idle"
    /\ v.kind = "disp"
    /\ \E email \in DnsEmails :
          LET c == [DnsIdle EXCEPT !.op = "Validate", !.arg = email]
              early == Disp_Validate(v, email, "none")
          IN  call' = IF early.lookups = 0 THEN Answered(c, early)
                      ELSE Asking(c, "MX")
    /\ UNCHANGED v

\* HasMXRecord of the result variant, up to its MX lookup
CallHasMXRecord ==
    /\ call.pc = "idle"
    /\ v.kind = "res"
    /\ \E email \in DnsEmails :
          call' = Asking([DnsIdle EXCEPT !.op = "HasMXRecord", !.arg = email], "MX")
    /\ UNCHANGED v

\* IsDomainValid once HasMXRecords has returned r
IsDomainValid_afterMX(c, r) ==
    IF r[2] # Nil THEN Answered(c, <<FALSE, r[2]>>)
    ELSE IF ~r[1] THEN Asking(c, "IP")
    ELSE Answered(c, <<TRUE, Nil>>)

\* net.LookupMX returns
LookupMXReturns ==
    /\ call.pc = "MX"
    /\ \E mx \in LookupOutcomes :
          LET c == [call EXCEPT !.mx = mx]
          IN  call' =
                CASE call.op = "HasMXRecords" -> Answered(c, HasMXRecords(mx))
                  [] call.op \in {"IsDomainValid", "ValidateEmailDomain"} ->
                        IsDomainValid_afterMX(c, HasMXRecords(mx))
                  [] call.op = "Validate" ->
                        Answered(c, Disp_Validate(v, call.arg, mx))
                  [] call.op = "HasMXRecord" -> Answered(c, HasMXRecord(mx))
    /\ UNCHANGED v

\* net.LookupIP returns
LookupIPReturns ==
    /\ call.pc = "IP"
    /\ \E ip \in LookupOutcomes : call' = Answered(call, HasARecords(ip))
    /\ UNCHANGED v

\* a second passes and the resolver has not answered
Tick ==
    /\ call.pc \in {"MX", "IP"}
    /\ call.waited < MaxWait
    /\ call' = [call EXCEPT !.waited = @ + 1]
    /\ UNCHANGED v

DnsReturn ==
    /\ call.pc = "done"
    /\ call' = DnsIdle
    /\ UNCHANGED v

DnsNext ==
    \/ SetTimeout
    \/ CallHasMXRecords
    \/ CallHasARecords
    \/ CallIsDomainValid
    \/ CallValidateEmailDomain
    \/ CallValidate
    \/ CallHasMXRecord
    \/ LookupMXReturns
    \/ LookupIPReturns
    \/ Tick
    \/ DnsReturn

DnsSpec == DnsInit /\ [][DnsNext]_vars

\* the timeout the caller configured
ConfiguredTimeout == IF v.kind = "dns" THEN v.timeout ELSE DefaultTimeout

\* C15: no lookup is still unanswered after the configured timeout: a caller
\* of HasMXRecords, HasARecords, IsDomainValid or Validate never waits for
\* the resolver longer than the timeout.
C15_LookupBoundedByTimeout ==
    call.pc \in {"MX", "IP"} => call.waited <= ConfiguredTimeout

\* C19: when the MX lookup of IsDomainValid returns no records or fails, the
\* A/AAAA lookup is made before the check ends.
C19_FallbackToAddressRecords ==
    (call.pc = "done" /\ call.op \in {"IsDomainValid", "ValidateEmailDomain"}
        /\ call.mx \in {"none", "error"})
        => "IP" \in call.asked

----------------------------------------------------------------------------
(* Several goroutines calling Validate on one validator.  A call reads the *)
(* validator's fields without a lock; AddDisposableDomain and              *)
(* RemoveDisposableDomain write the registry map without one.  A write     *)
(* that falls into a call in progress is a data race with the call's read: *)
(* the call then sees the map before or after the write, or the runtime    *)
(* stops the program (concurrent map read and map write).                  *)

Goroutines == {1, 2}

ConcEmails ==
    {<<"c">>, <<"c","@","c",".","c","o">>, <<".","c","@","C",".","C","O">>,
     <<"c","@","t","e","m","p","m","a","i","l",".","c","o","m">>,
     <<"c","@","e","x","a","m","p","l","e",".","c","o","m">>}

\* seen: the validator as it was when the call began; raced: a registry
\* write fell into the call
GoIdle ==
    [pc |-> "idle", email |-> <<>>, mx |-> "", res |-> EmptyResult,
     seen |-> ZeroValidator, raced |-> FALSE]

\* Validate of the variant of ev, the lookup (if it makes one) answering mx
ValidateBy(ev, email, mx) ==
    CASE ev.kind = "opt" -> Opt_Validate(ev, email)
      [] ev.kind = "disp" -> Disp_Validate(ev, email, mx)
      [] ev.kind = "res" -> Res_Validate(ev, email)

ConcInit ==
    /\ v \in {NewEmailValidator, Res_New,
              Opt_New(<<[name |-> "WithBlockedDomains",
                         arg |-> <<<<"c",".","c","o">>>>]>>)}
    /\ call = [g \in Goroutines |-> GoIdle]

Running == \A g \in Goroutines : call[g].pc # "crashed"

\* goroutine g enters Validate(email)
ConcBegin(g) ==
    /\ Running
    /\ call[g].pc = "idle"
    /\ \E email \in ConcEmails :
          call' = [call EXCEPT ![g] = [GoIdle EXCEPT !.pc = "checking",
                                                    !.email = email,
                                                    !.seen = v]]
    /\ UNCHANGED v

\* ConcFinish of a Validate that drops the address's domain from the
\* registry once it has reported it
ConcFinish_forgetting(g) ==
    /\ Running
    /\ call[g].pc = "checking"
    /\ \E mx \in LookupOutcomes :
          call' = [call EXCEPT ![g].pc = "done", ![g].mx = mx,
                               ![g].res = ValidateBy(v, call[g].email, mx)]
    /\ v' = [v EXCEPT !.disposableDomains = @ \ {splitEmail(call[g].email)[2]}]

\* goroutine g runs the rules, reading the validator, and returns
ConcFinish(g) ==
    /\ Running
    /\ call[g].pc = "checking"
    /\ \E mx \in LookupOutcomes, ev \in {v, call[g].seen} :
          \/ /\ ev = v \/ call[g].raced
             /\ call' = [call EXCEPT ![g].pc = "done", ![g].mx = mx,
                                     ![g].res = ValidateBy(ev, call[g].email, mx)]
          \/ /\ call[g].raced
             /\ call' = [call EXCEPT ![g].pc = "crashed"]
    /\ UNCHANGED v

ConcReturn(g) ==
    /\ Running
    /\ call[g].pc = "done"
    /\ call' = [call EXCEPT ![g] = GoIdle]
    /\ UNCHANGED v

\* the calls in progress are raced by a write of the registry
Raced(c) == [g \in Goroutines |->
                IF c[g].pc = "checking" THEN [c[g] EXCEPT !.raced = TRUE]
                ELSE c[g]]

ConcAddDisposable ==
    /\ Running
    /\ v.kind = "disp"
    /\ \E domain \in RegistryArgs : v' = AddDisposableDomain(v, domain)
    /\ call' = Raced(call)

ConcRemoveDisposable ==
    /\ Running
    /\ v.kind = "disp"
    /\ \E domain \in RegistryArgs : v' = RemoveDisposableDomain(v, domain)
    /\ call' = Raced(call)

ConcNext ==
    \/ \E g \in Goroutines : ConcBegin(g)
    \/ \E g \in Goroutines : ConcFinish(g)
    \/ \E g \in Goroutines : ConcReturn(g)
    \/ ConcAddDisposable
    \/ ConcRemoveDisposable

ConcSpec == ConcInit /\ [][ConcNext]_vars

\* C16: with several goroutines calling Validate on one validator, no step
\* of a Validate call changes the validator, and every call into which no
\* registry write fell returns what Validate returns for the same address
\* on the validator alone; only a call raced by a write can stop the program.
C16_ConcurrentValidate ==
    /\ [](\A g \in Goroutines :
            /\ (call[g].pc = "done" /\ ~call[g].raced)
                  => call[g].res
                       = ValidateOf(call[g].seen, call[g].email, call[g].mx)
            /\ call[g].pc = "crashed" => call[g].raced)
    /\ [][(\E g \in Goroutines :
              /\ call'[g].pc # call[g].pc
              /\ call'[g].pc \in {"checking", "done"})
            => v' = v]_vars

\* two calls overlap on one validator with a blocked or disposable domain:
\* one has its result while the other is still running
C16_Witness ==
    /\ call[1].pc = "checking"
    /\ call[2].pc = "done"
    /\ ~call[1].raced
    /\ ~call[2].raced
    /\ call[1].email # call[2].email
    /\ ~call[2].res.isValid
    /\ call[2].res.ran # {}

\* the characters the local-part may hold in strict and in relaxed mode
StrictLegal ==
    AlphaNum \cup {"!", "#", "$", "%", "&", "'", "*", "+", "-", "/", "=", "?",
                   "^", "_", Backtick, "{", "|", "}", "~", "."}

RelaxedLegal == AlphaNum \cup {".", "-", "_", "+"}

CharDiagnostics ==
    {"local part contains invalid characters",
     "username contains invalid characters"}

\* C17: in the variants with a strict mode, an address with one '@', a
\* domain and a well-dotted local-part is rejected when the local-part holds
\* a character outside the set of its mode, with exactly one
\* invalid-characters diagnostic (or the format diagnostic of the gate), and
\* gets no such diagnostic when every character is in the set.
C17_LocalPartCharacters ==
    (Returned /\ v.kind \in {"err", "res"} /\ OneSeparator
        /\ LocalSeen # <<>> /\ DomainSeen # <<>> /\ ~BadlyDotted(LocalSeen))
        => LET legal == IF v.strictMode THEN StrictLegal ELSE RelaxedLegal
               illegal == \E i \in 1..Len(LocalSeen) : LocalSeen[i] \notin legal
               n == Cardinality({i \in 1..Len(call.res.errors) :
                                   call.res.errors[i] \in CharDiagnostics})
           IN  /\ illegal => /\ ~call.res.isValid
                             /\ n = 1 \/ call.res.errors = <<"Invalid email format">>
               /\ ~illegal => n = 0

\* the diagnostics of the checks, in the wording of each variant
Diagnostics ==
    [email254 |-> {"Email address too long (max 254 characters)",
                   "Email too long (max 254 characters)",
                   "email address cannot exceed 254 characters"},
     local64 |-> {"Local part too long (max 64 characters)",
                  "local part exceeds maximum length (64 characters)",
                  "local part cannot exceed 64 characters",
                  "username too long (max 64 characters)"},
     domain253 |-> {"Domain too long (max 253 characters)",
                    "domain too long (max 253 characters)"},
     label63 |-> {"domain part exceeds maximum length (63 characters)",
                  "domain part too long (max 63 characters)",
                  "domain label cannot exceed 63 characters"},
     dots |-> {"local part cannot contain consecutive dots",
               "local part cannot start or end with a dot",
               "username cannot contain consecutive dots",
               "username cannot start or end with a dot"},
     blocked |-> {"Domain is blocked"},
     disposable |-> {DisposableMessage}]

\* the checks each variant has a diagnostic for, once its gate has passed
Implements ==
    [opt |-> {"local64", "dots", "label63", "blocked"},
     disp |-> {"email254", "local64", "domain253", "disposable"},
     res |-> {"local64", "dots", "domain253", "label63"},
     err |-> {"email254", "local64", "dots", "label63"},
     lengthRule |-> {"email254", "local64", "domain253"}]

\* the call's address passed the format gate of the variant: one '@' with
\* something on both sides, and in the variants that match the pattern
\* first, a match
GatePassed ==
    /\ OneSeparator
    /\ LocalSeen # <<>>
    /\ DomainSeen # <<>>
    /\ (v.kind = "opt" => Opt_isValidFormat(call.email))
    /\ (v.kind = "res" => Res_isValidFormat(call.email))

\* the checks the call's address violates
Violated ==
    LET labels == Split(DomainSeen, ".")
    IN  {c \in DOMAIN Diagnostics :
           CASE c = "email254" -> Len(Examined) > MaxEmailLen
             [] c = "local64" -> Len(LocalSeen) > MaxLocalLen
             [] c = "domain253" -> Len(DomainSeen) > MaxDomainLen
             [] c = "label63" -> \E k \in 1..Len(labels) : Len(labels[k]) > MaxLabelLen
             [] c = "dots" -> BadlyDotted(LocalSeen)
             [] c = "blocked" -> ToLower(DomainSeen) \in v.blockedDomains
             [] c = "disposable" -> DomainSeen \in v.disposableDomains}

\* C18: once the format gate has passed, every check the address violates
\* (each length bound, the local-part dots, the blocked and the disposable
\* domain), among those the variant has, has its diagnostic in the errors.
C18_NoShortCircuit ==
    (Returned /\ v.kind \in DOMAIN Implements /\ GatePassed)
        => \A c \in Violated \cap Implements[v.kind] :
              \E i \in 1..Len(call.res.errors) :
                 call.res.errors[i] \in Diagnostics[c]

----------------------------------------------------------------------------
(* The classifier CommonPatterns.  HasCommonPattern ranges over a map of   *)
(* patterns; the order in which a map is ranged over is not fixed, so the  *)
(* call returns the tag of whichever matching pattern comes up first.      *)

NewCommonPatterns == [kind |-> "patterns"]

AllLower(s) == s # <<>> /\ \A i \in 1..Len(s) : s[i] \in LowerLetters

AllDigits(s) == s # <<>> /\ \A i \in 1..Len(s) : s[i] \in Digits

\* ^[a-z]{lo,hi}\d+$
LettersThenDigits(s, lo, hi) ==
    \E k \in 1..(Len(s) - 1) :
       /\ k >= lo
       /\ k <= hi
       /\ AllLower(SubSeq(s, 1, k))
       /\ AllDigits(SubSeq(s, k + 1, Len(s)))

\* the patterns of the map as <<tag, matches>>, in the order written
Patterns(s) ==
    << <<"numeric_only", AllDigits(s)>>,
       <<"first.last",
         \E d \in 1..Len(s) : /\ s[d] = "."
                              /\ AllLower(SubSeq(s, 1, d - 1))
                              /\ AllLower(SubSeq(s, d + 1, Len(s)))>>,
       <<"name_with_numbers", LettersThenDigits(s, 1, Len(s))>>,
       <<"first.last_with_numbers",
         \E d \in 1..Len(s) : /\ s[d] = "."
                              /\ AllLower(SubSeq(s, 1, d - 1))
                              /\ LettersThenDigits(SubSeq(s, d + 1, Len(s)), 1, Len(s))>>,
       <<"initials_with_numbers", LettersThenDigits(s, 1, 2)>>,
       <<"test_account", HasPrefix(s, <<"t","e","s","t">>)>>,
       <<"demo_account", HasPrefix(s, <<"d","e","m","o">>)>> >>

\* the tags HasCommonPattern(email) can return
HasCommonPattern(email) ==
    LET localPart == ToLower(Split(email, "@")[1])
        p == Patterns(localPart)
        matched == {p[i][1] : i \in {j \in 1..Len(p) : p[j][2]}}
    IN  IF matched = {} THEN {"custom"} ELSE matched

PatternAlphabet == {"a", "T", "1", ".", "@"}

PatternEmails ==
    UNION {[1..n -> PatternAlphabet] : n \in 0..MaxLen}
    \cup {<<"a","b","1","2">>, <<"t","e","s","t","1","2","3">>,
          <<"j","o","h","n",".","d","o","e","1","2","3">>,
          <<"j","o","h","n",".","d","o","e">>, <<"t","e","s","t">>,
          <<"D","e","m","o","-","1","@","c",".","c","o">>,
          <<"a","b","c","1","@","c",".","c","o">>,
          <<"a","_","b","@","c",".","c","o">>}

ClassifyIdle == [pc |-> "idle", email |-> <<>>, tag |-> ""]

ClassifyInit ==
    /\ v = NewCommonPatterns
    /\ call = ClassifyIdle

CallHasCommonPattern ==
    /\ call.pc = "idle"
    /\ \E email \in PatternEmails :
          \E tag \in HasCommonPattern(email) :
             call' = [pc |-> "done", email |-> email, tag |-> tag]
    /\ UNCHANGED v

ClassifyReturn ==
    /\ call.pc = "done"
    /\ call' = ClassifyIdle
    /\ UNCHANGED v

ClassifyNext == CallHasCommonPattern \/ ClassifyReturn

ClassifySpec == ClassifyInit /\ [][ClassifyNext]_vars

\* the tag of the first pattern, in the declared order, that the local-part
\* of the address matches
FirstTag(email) ==
    LET p == Patterns(ToLower(Split(email, "@")[1]))
        hits == {i \in 1..Len(p) : p[i][2]}
    IN  IF hits = {} THEN "custom"
        ELSE p[CHOOSE i \in hits : \A j \in hits : i <= j][1]

\* C20: HasCommonPattern returns, for every address, the tag of the first
\* pattern in the declared order that its local-part matches, or "custom".
C20_FixedPrecedence ==
    call.pc = "done" => call.tag = FirstTag(call.email)

----------------------------------------------------------------------------
(* The helpers that take an address apart: IsDisposable and IsRoleAccount  *)
(* of CommonPatterns, ExtractDomain, ExtractUsername and IsDisposableEmail *)
(* of the validator.  Indexing a slice beyond its length stops the call    *)
(* with a run-time panic.                                                  *)

Panic == "panic: index out of range"

PatternDisposableDomains ==
    {<<"t","e","m","p","m","a","i","l",".","c","o","m">>,
     <<"g","u","e","r","r","i","l","l","a","m","a","i","l",".","c","o","m">>,
     <<"m","a","i","l","i","n","a","t","o","r",".","c","o","m">>,
     <<"1","0","m","i","n","u","t","e","m","a","i","l",".","c","o","m">>,
     <<"t","h","r","o","w","a","w","a","y","m","a","i","l",".","c","o","m">>,
     <<"y","o","p","m","a","i","l",".","c","o","m">>,
     <<"f","a","k","e","i","n","b","o","x",".","c","o","m">>,
     <<"t","r","a","s","h","m","a","i","l",".","c","o","m">>,
     <<"g","e","t","a","i","r","m","a","i","l",".","c","o","m">>,
     <<"d","i","s","p","o","s","t","a","b","l","e",".","c","o","m">>,
     <<"m","a","i","l","d","r","o","p",".","c","c">>,
     <<"t","m","p","m","a","i","l",".","o","r","g">>}

RoleAccounts ==
    {<<"a","d","m","i","n">>,
     <<"a","d","m","i","n","i","s","t","r","a","t","o","r">>,
     <<"w","e","b","m","a","s","t","e","r">>,
     <<"p","o","s","t","m","a","s","t","e","r">>,
     <<"h","o","s","t","m","a","s","t","e","r">>,
     <<"a","b","u","s","e">>,
     <<"n","o","c">>,
     <<"s","e","c","u","r","i","t","y">>,
     <<"i","n","f","o">>,
     <<"s","a","l","e","s">>,
     <<"s","u","p","p","o","r","t">>,
     <<"c","o","n","t","a","c","t">>,
     <<"h","e","l","p">>,
     <<"m","a","i","l">>,
     <<"h","e","l","l","o">>,
     <<"n","o","r","e","p","l","y">>,
     <<"n","o","-","r","e","p","l","y">>,
     <<"n","e","w","s","l","e","t","t","e","r">>}

\* the outcome of a call: a value returned, or a panic
Returns(value) == [ok |-> TRUE, value |-> value]

Panics == [ok |-> FALSE, value |-> Panic]

IsDisposable(email) ==
    LET parts == Split(email, "@")
    IN  IF Len(parts) < 2 THEN Panics
        ELSE LET domain == ToLower(parts[2])
             IN  Returns(\E disposable \in PatternDisposableDomains :
                            Contains(domain, disposable))

IsRoleAccount(email) ==
    LET localPart == ToLower(Split(email, "@")[1])
    IN  Returns(localPart \in RoleAccounts)

ExtractDomain(email) == Returns(splitEmail(email)[2])

ExtractUsername(email) == Returns(splitEmail(email)[1])

HelperDisposableDomains ==
    {<<"t","e","m","p","m","a","i","l",".","c","o","m">>, <<"g","u","e","r","r","i","l","l","a","m","a","i","l",".","c","o","m">>, <<"m","a","i","l","i","n","a","t","o","r",".","c","o","m">>,
     <<"1","0","m","i","n","u","t","e","m","a","i","l",".","c","o","m">>, <<"y","o","p","m","a","i","l",".","c","o","m">>, <<"t","h","r","o","w","a","w","a","y","m","a","i","l",".","c","o","m">>}

IsDisposableEmail(email) ==
    Returns(ToLower(splitEmail(email)[2]) \in HelperDisposableDomains)

HelperOps ==
    {"IsDisposable", "IsRoleAccount", "ExtractDomain", "ExtractUsername",
     "IsDisposableEmail"}

\* what the helper op gives for email
Helper(op, email) ==
    CASE op = "IsDisposable" -> IsDisposable(email)
      [] op = "IsRoleAccount" -> IsRoleAccount(email)
      [] op = "ExtractDomain" -> ExtractDomain(email)
      [] op = "ExtractUsername" -> ExtractUsername(email)
      [] op = "IsDisposableEmail" -> IsDisposableEmail(email)

HelperEmails ==
    PatternEmails \cup DnsEmails
    \cup {<<"a","d","m","i","n","@","c",".","c","o">>,
          <<"c","@","x",".","Y","o","p","M","a","i","l",".","c","o","m">>}

HelperIdle == [pc |-> "idle", op |-> "", email |-> <<>>, ret |-> <<>>]

HelperInit ==
    /\ v \in {NewCommonPatterns, Res_New}
    /\ call = HelperIdle

\* a helper of the classifier is called and returns or panics
CallClassifier ==
    /\ call.pc = "idle"
    /\ v.kind = "patterns"
    /\ \E op \in {"IsDisposable", "IsRoleAccount"}, email \in HelperEmails :
          LET ret == Helper(op, email)
          IN  call' = [pc |-> IF ret.ok THEN "returned" ELSE "panicked",
                       op |-> op, email |-> email, ret |-> ret]
    /\ UNCHANGED v

\* a helper of the validator is called and returns
CallExtract ==
    /\ call.pc = "idle"
    /\ v.kind = "res"
    /\ \E op \in {"ExtractDomain", "ExtractUsername", "IsDisposableEmail"},
          email \in HelperEmails :
          call' = [pc |-> "returned", op |-> op, email |-> email,
                   ret |-> Helper(op, email)]
    /\ UNCHANGED v

HelperReturn ==
    /\ call.pc = "returned"
    /\ call' = HelperIdle
    /\ UNCHANGED v

HelperNext == CallClassifier \/ CallExtract \/ HelperReturn

HelperSpec == HelperInit /\ [][HelperNext]_vars

\* C21: no call of a helper faults: IsDisposable, IsRoleAccount,
\* ExtractDomain, ExtractUsername and IsDisposableEmail return a value for
\* every string, with no, one or several '@'.
C21_NeverFaults == call.pc # "panicked"

====
